---- MODULE Spec2Model ----
(***************************************************************************)
(* Model of specific-tool: the presentation thread of modules/ui.py (App),  *)
(* the three hardware backends of modules/hardware.py, and the automation   *)
(* engine / safety protocol of modules/core.py.  core.py is imported by     *)
(* ui.py (line 14) but is not among the source files, so the engine loop,   *)
(* HardwareCoordinator.apply and SafetyProtocol.execute follow spec.md      *)
(* sections 4.2 - 4.4; everything else follows the source.                  *)
(***************************************************************************)
EXTENDS Integers, Sequences, FiniteSets, TLC

\* ------------------------------------------------------------------ bounds

\* Longest game list the configuration actions build.
MaxGames == 2
\* Vibrance levels are drawn from -LevelMargin .. 100 + LevelMargin.
LevelMargin == 30
\* Display handles enumerated by the driver: 0 .. MaxHandles (the code caps at 10).
MaxHandles == 2
\* optimize(base, target): base in 0 .. MaxBase, target in -1 .. MaxTarget.
MaxBase == 14
MaxTarget == 8
\* set_speed(index): index in 1 - SpeedMargin .. 20 + SpeedMargin.
SpeedMargin == 2
\* Packets in each of the DPI sequences SEQ_DPI_1600 and SEQ_DPI_800.
DpiPackets == 4
\* Longest game list of the game-list specification.
MaxListed == 3
\* Closures waiting in ui_queue (queue.Queue() itself is unbounded).
MaxQueue == 2
\* Closures put on ui_queue in one run of the program.
MaxEnq == 2

\* ------------------------------------------------------------------ names

\* Executable names are sequences of characters.
GameExe == <<"g">>
OtherExe == <<"o">>
\* What a process-table sample can contain (lowercase names, spec 4.1).
PollNames == {GameExe, OtherExe}
\* What the user types into the game entry in the main specification.
Entries == {<<"g">>, <<"G", " ">>, <<"o">>, <<" ">>}

VARIABLES
    running,        \* engine.running
    current_state,  \* engine.current_state
    games,          \* cfg.games
    device,         \* VXEMouseBackend.device is set
    gpuAvail,       \* NvidiaService._is_avail
    hwMouse,        \* what the mouse last received: [dpi, hz]
    hwGpu,          \* which mode's vibrance level the display(s) last received
    hwOs,           \* which pointer speed the OS last received
    ePc,            \* engine thread: position in loop()
    eGames,         \* engine thread: game list snapshot of this tick
    eProcs,         \* engine thread: poll() result of this tick
    eTarget,        \* engine thread: target mode of this tick
    eCalls,         \* backend calls made by the engine thread in this tick
    eFailed,        \* a write or OS call of this tick's apply failed inside its backend
    uPc,            \* presentation thread: position in the running handler
    uOp,            \* presentation thread: the handler that is running
    uCalls,         \* backend calls made by the running / last handler
    uFrom,          \* engine.current_state when the running handler's execute() began
    stopped,        \* a stop (toggle_engine, else branch) completed, no start since
    exited,         \* sys.exit() was reached
    gLevel,         \* set_vibrance unit: level argument of the last call
    gPrimary,       \* set_vibrance unit: primary_only argument of the last call
    gHandles,       \* set_vibrance unit: number of enumerated handles
    gWrites,        \* set_vibrance unit: _set_dvc calls of the last call, in order
    osDefault,      \* WindowsMouseService._default
    osLast,         \* pointer-speed unit: the last call and the index it handed to the OS
    mRet,           \* mouse unit: what connect() returned
    mSent,          \* mouse unit: the packets the last mode call passed to _send, in order
    mLast,          \* mouse unit: the last mode call and how it ended
    ui_queue,       \* App.ui_queue: the closures put and not yet run
    lbl_status,     \* what lbl_status_text / lbl_status_dot show, and the thread that set it
    gsLast,         \* the last get_ui_state call: key, calling thread, widget read, result
    uiEnq,          \* number of closures put on ui_queue so far
    uiRan,          \* the closures process_ui_queue has called, in order, and the thread
    uiSched         \* an after(100, process_ui_queue) timer is pending

engineVars == <<ePc, eGames, eProcs, eTarget, eCalls, eFailed>>
uiVars == <<uPc, uOp, uCalls, uFrom>>
hwVars == <<hwMouse, hwGpu, hwOs>>
envVars == <<device, gpuAvail>>
gpuUnitVars == <<gLevel, gPrimary, gHandles, gWrites>>
osUnitVars == <<osDefault, osLast>>
\* Everything the main specification leaves alone.
mouseUnitVars == <<mRet, mSent, mLast>>
queueUnitVars == <<ui_queue, lbl_status, gsLast, uiEnq, uiRan, uiSched>>
unitVars == <<gpuUnitVars, osUnitVars, mouseUnitVars, queueUnitVars>>
vars == <<running, current_state, games, device, gpuAvail, hwMouse, hwGpu, hwOs,
          ePc, eGames, eProcs, eTarget, eCalls, eFailed, uPc, uOp, uCalls, uFrom, stopped,
          exited, gLevel, gPrimary, gHandles, gWrites, osDefault, osLast,
          mRet, mSent, mLast, ui_queue, lbl_status, gsLast, uiEnq, uiRan, uiSched>>

\* The units at rest, as the other specifications hold them.
GpuUnitIdle == gLevel = 50 /\ gPrimary = FALSE /\ gWrites = <<>>

OsNoCall == [op |-> "none", prev |-> "none", a |-> 0, b |-> 0, res |-> "none", applied |-> 0]

OsUnitIdle == osDefault = 10 /\ osLast = OsNoCall

MouseNoCall == [op |-> "none", res |-> "none"]

MouseUnitIdle == mRet = "none" /\ mSent = <<>> /\ mLast = MouseNoCall

\* No get_ui_state call made yet.
NoUiStateCall ==
    [key |-> "none", thread |-> "none", widget |-> "none", ret |-> [kind |-> "none", val |-> 0]]

\* The status label as _build_dashboard leaves it.
StatusAtStart == [text |-> "init", is_game |-> FALSE, thread |-> "ui"]

\* __init__ has called process_ui_queue once (ui.py line 82): a timer is pending.
QueueUnitIdle ==
    /\ ui_queue = <<>> /\ lbl_status = StatusAtStart /\ gsLast = NoUiStateCall
    /\ uiEnq = 0 /\ uiRan = <<>> /\ uiSched = TRUE

\* ------------------------------------------------------------ text helpers

Range(s) == {s[i] : i \in 1..Len(s)}

\* str.lower() on one character of the alphabet in use.
LowerChar(c) ==
    CASE c = "G" -> "g"
      [] c = "O" -> "o"
      [] OTHER -> c

Lower(s) == [i \in 1..Len(s) |-> LowerChar(s[i])]

RECURSIVE LStrip(_)
LStrip(s) == IF s # <<>> /\ Head(s) = " " THEN LStrip(Tail(s)) ELSE s

RECURSIVE RStrip(_)
RStrip(s) ==
    IF s # <<>> /\ s[Len(s)] = " " THEN RStrip(SubSeq(s, 1, Len(s) - 1)) ELSE s

\* str.strip()
Strip(s) == RStrip(LStrip(s))

\* list.remove(x): drops the first occurrence.
RECURSIVE RemoveFirst(_, _)
RemoveFirst(s, x) ==
    IF s = <<>> THEN <<>>
    ELSE IF Head(s) = x THEN Tail(s)
    ELSE <<Head(s)>> \o RemoveFirst(Tail(s), x)

\* ------------------------------------------------------------ backend calls
\* A call is logged as [dev, op, res]; res is "ok" (returned after doing its
\* writes), "noop" (returned at its availability gate) or "raised".

Call(dev, op, res) == [dev |-> dev, op |-> op, res |-> res]

\* VXEMouseBackend.set_desktop_mode: gate on self.device, SEQ_DPI_800, CMD_HZ_1000.
\* _send swallows a failing write (io = FALSE: the device received nothing).
MouseDesktopNew(dev, hw, io) ==
    IF dev /\ io THEN [dpi |-> "dpi800", hz |-> "hz1000"] ELSE hw

\* Variant of MouseDesktopRes: the desktop sequence ending in an undefined name too.
MouseDesktopResRaises(dev) == IF dev THEN "raised" ELSE "noop"

MouseDesktopRes(dev) == IF dev THEN "ok" ELSE "noop"

\* VXEMouseBackend.set_game_mode: gate on self.device, SEQ_DPI_1600, then
\* CMD_HZ_2000, a name hardware.py never imports or defines: a NameError is
\* raised after the DPI packets, and no polling-rate command is written.
MouseGameNew(dev, hw, io) ==
    IF dev /\ io THEN [dpi |-> "dpi1600", hz |-> hw.hz] ELSE hw

MouseGameRes(dev) == IF dev THEN "raised" ELSE "noop"

\* Variant of GpuNew: set_vibrance without its availability gate.
GpuNewUngated(avail, hw, mode, io) == IF io THEN mode ELSE hw

\* NvidiaService.set_vibrance in the main specification: gate on available,
\* the writes inside try/except (io = FALSE: _set_dvc failed, nothing written).
GpuNew(avail, hw, mode, io) == IF avail /\ io THEN mode ELSE hw

GpuRes(avail) == IF avail THEN "ok" ELSE "noop"

\* WindowsMouseService.reset: set_speed(self._default).
OsResetNew(hw, io) == IF io THEN "default" ELSE hw

\* WindowsMouseService.optimize(base, target): base / target raises
\* ZeroDivisionError for target = 0, before set_speed is reached.
OsOptimizeNew(hw, target, io) == IF target # 0 /\ io THEN "optimized" ELSE hw

OsOptimizeRes(target) == IF target = 0 THEN "raised" ELSE "ok"

\* Pointer-speed targets handed to optimize in the main specification.
OsTargets == {0, 800}

\* ------------------------------------------------- set_vibrance, in detail

\* Python's int() on the product: truncation toward zero of num / den, den > 0.
TruncDiv(num, den) == IF num >= 0 THEN num \div den ELSE -((-num) \div den)

Clamp(lo, hi, x) == IF x < lo THEN lo ELSE IF x > hi THEN hi ELSE x

\* Variant of VibranceValue: the product without the clamp.
VibranceValueUnclamped(level) == TruncDiv((level - 50) * 126, 100)

\* Variant of VibranceValue: floor division in place of int().
VibranceValueFloor(level) == Clamp(-63, 63, ((level - 50) * 126) \div 100)

\* val = max(-63, min(63, int((level - 50) * 1.26)))
VibranceValue(level) == Clamp(-63, 63, TruncDiv((level - 50) * 126, 100))

\* Variant of VibranceWrites: primary_only is not looked at.
VibranceWritesAll(avail, n, level, primary_only) ==
    IF ~avail THEN <<>>
    ELSE [i \in 1..n |-> [h |-> i, val |-> VibranceValue(level)]]

\* The _set_dvc(handle, 0, val) calls of one set_vibrance(level, primary_only),
\* in order, with n enumerated handles numbered 1 .. n.
VibranceWrites(avail, n, level, primary_only) ==
    IF ~avail THEN <<>>
    ELSE IF primary_only /\ n > 0 THEN <<[h |-> 1, val |-> VibranceValue(level)]>>
    ELSE [i \in 1..n |-> [h |-> i, val |-> VibranceValue(level)]]

\* Levels handed to set_vibrance: the slider range and a margin around it.
Levels == (0 - LevelMargin)..(100 + LevelMargin)

\* ------------------------------------------- WindowsMouseService, in detail

\* _MAP, index -> multiplier, every multiplier times 32 (all are multiples of 1/32).
PointerMap32 == <<1, 2, 4, 8, 12, 16, 20, 24, 28, 32, 40, 48, 56, 64, 72, 80, 88, 96, 104, 112>>

\* abs(self._MAP[k] - req) with req = base * 1.0 / target, target # 0, times
\* 32 * abs(target): the same factor for every k, so the order is kept.
KeyDist(k, base, target) == IF PointerMap32[k] * target - 32 * base < 0
                               THEN 32 * base - PointerMap32[k] * target
                               ELSE PointerMap32[k] * target - 32 * base

\* min(self._MAP.keys(), key=...): the keys in insertion order 1 .. 20, a key
\* replacing the best so far only when it is strictly closer.
RECURSIVE MinKeyFrom(_, _, _, _)
MinKeyFrom(k, best, base, target) ==
    IF k > 20 THEN best
    ELSE MinKeyFrom(k + 1,
                    IF KeyDist(k, base, target) < KeyDist(best, base, target)
                       THEN k ELSE best,
                    base, target)

\* Variant of MinKey: ties go to the later key.
MinKeyLastTie(base, target) ==
    CHOOSE k \in 1..20 : \A j \in 1..20 :
        /\ KeyDist(k, base, target) <= KeyDist(j, base, target)
        /\ j > k => KeyDist(k, base, target) < KeyDist(j, base, target)

MinKey(base, target) == MinKeyFrom(2, 1, base, target)

\* Variant of SpeedIndex: the index handed on as it is.
SpeedIndexUnclamped(index) == index

\* set_speed: max(1, min(20, int(index))) is what SystemParametersInfoW receives.
SpeedIndex(index) == Clamp(1, 20, index)

\* ------------------------------------------------------------------ engine

\* Variant of TargetMode: only the first listed game is looked up.
TargetModeFirstOnly(G, R) ==
    IF G # <<>> /\ G[1] \in R THEN "game" ELSE "desktop"

\* Target mode of a tick (spec 4.2): Game iff a listed game is running.
TargetMode(G, R) ==
    IF \E i \in 1..Len(G) : G[i] \in R THEN "game" ELSE "desktop"

Init ==
    /\ running \in BOOLEAN
    /\ current_state = "unknown"
    /\ games \in {<<>>, <<GameExe>>}
    /\ device \in BOOLEAN
    /\ gpuAvail \in BOOLEAN
    /\ hwMouse = [dpi |-> "init", hz |-> "init"]
    /\ hwGpu = "init"
    /\ hwOs = "init"
    /\ ePc = "check"
    /\ eGames = <<>>
    /\ eProcs = {}
    /\ eTarget = "none"
    /\ eCalls = <<>>
    /\ eFailed = FALSE
    /\ uPc = "idle"
    /\ uOp = "none"
    /\ uCalls = <<>>
    /\ uFrom = "none"
    /\ stopped = FALSE
    /\ exited = FALSE
    /\ GpuUnitIdle
    /\ gHandles = 0
    /\ OsUnitIdle
    /\ MouseUnitIdle
    /\ QueueUnitIdle

\* loop(): the running flag is polled once per tick.
EngineCheck ==
    /\ ~exited /\ ePc = "check" /\ running
    /\ ePc' = "poll"
    /\ eCalls' = <<>>
    /\ eFailed' = FALSE
    /\ UNCHANGED <<running, current_state, games, envVars, hwVars, eGames, eProcs,
                   eTarget, uiVars, stopped, exited, unitVars>>

\* Snapshot of the game list, ProcessMonitor.poll(), target mode.
EnginePoll ==
    /\ ~exited /\ ePc = "poll"
    /\ \E R \in SUBSET PollNames :
        /\ eProcs' = R
        /\ eGames' = games
        /\ eTarget' = TargetMode(games, R)
    /\ ePc' = "decide"
    /\ UNCHANGED <<eFailed, running, current_state, games, envVars, hwVars, eCalls, uiVars,
                   stopped, exited, unitVars>>

\* Variant of EnginePollRaises: the exception leaves loop() and ends the thread.
EnginePollRaisesFatal ==
    /\ ~exited /\ ePc = "poll"
    /\ ePc' = "dead"
    /\ UNCHANGED <<running, current_state, games, envVars, hwVars, eGames, eProcs, eTarget,
                   eCalls, eFailed, uiVars, stopped, exited, unitVars>>

\* The configuration snapshot or ProcessMonitor.poll() raises: the exception
\* escapes the tick and reaches the handler at the tick boundary.
EnginePollRaises ==
    /\ ~exited /\ ePc = "poll"
    /\ ePc' = "caught"
    /\ UNCHANGED <<running, current_state, games, envVars, hwVars, eGames, eProcs, eTarget,
                   eCalls, eFailed, uiVars, stopped, exited, unitVars>>

\* The handler at the tick boundary logs the exception; the loop goes on.
EngineCaught ==
    /\ ~exited /\ ePc = "caught"
    /\ ePc' = "check"
    /\ UNCHANGED <<running, current_state, games, envVars, hwVars, eGames, eProcs, eTarget,
                   eCalls, eFailed, uiVars, stopped, exited, unitVars>>

\* Variant of EngineDecide: apply is called on every tick.
EngineDecideAlways ==
    /\ ~exited /\ ePc = "decide"
    /\ ePc' = "apply_mouse"
    /\ eGames' = <<>> /\ eProcs' = {}
    /\ UNCHANGED <<eFailed, running, current_state, games, envVars, hwVars, eTarget, eCalls, uiVars,
                   stopped, exited, unitVars>>

\* targetMode == currentMode: the hardware call is skipped.
EngineDecide ==
    /\ ~exited /\ ePc = "decide"
    /\ IF eTarget = current_state
          THEN /\ ePc' = "check"
               /\ eTarget' = "none" /\ eGames' = <<>> /\ eProcs' = {}
          ELSE /\ ePc' = "apply_mouse"
               /\ eGames' = <<>> /\ eProcs' = {}
               /\ UNCHANGED eTarget
    /\ UNCHANGED <<eFailed, running, current_state, games, envVars, hwVars, eCalls, uiVars,
                   stopped, exited, unitVars>>

\* Variant of EngineApplyMouse: no failure boundary, a raising mouse call ends apply.
EngineApplyMouseAborts ==
    /\ ~exited /\ ePc = "apply_mouse"
    /\ \E io \in BOOLEAN :
        IF eTarget = "game"
           THEN /\ hwMouse' = MouseGameNew(device, hwMouse, io)
                /\ eCalls' = Append(eCalls, Call("mouse", "game", MouseGameRes(device)))
                /\ ePc' = IF MouseGameRes(device) = "raised" THEN "check" ELSE "apply_gpu"
                /\ eFailed' = (eFailed \/ (device /\ ~io))
           ELSE /\ hwMouse' = MouseDesktopNew(device, hwMouse, io)
                /\ eCalls' = Append(eCalls, Call("mouse", "desktop", MouseDesktopRes(device)))
                /\ ePc' = "apply_gpu"
                /\ eFailed' = (eFailed \/ (device /\ ~io))
    /\ UNCHANGED <<running, current_state, games, envVars, hwGpu, hwOs, eGames, eProcs,
                   eTarget, uiVars, stopped, exited, unitVars>>

\* apply(mode), first backend: the mouse profile, inside its failure boundary.
EngineApplyMouse ==
    /\ ~exited /\ ePc = "apply_mouse"
    /\ \E io \in BOOLEAN :
        /\ IF eTarget = "game"
              THEN /\ hwMouse' = MouseGameNew(device, hwMouse, io)
                   /\ eCalls' = Append(eCalls, Call("mouse", "game", MouseGameRes(device)))
              ELSE /\ hwMouse' = MouseDesktopNew(device, hwMouse, io)
                   /\ eCalls' = Append(eCalls, Call("mouse", "desktop", MouseDesktopRes(device)))
        /\ eFailed' = (eFailed \/ (device /\ ~io))
    /\ ePc' = "apply_gpu"
    /\ UNCHANGED <<running, current_state, games, envVars, hwGpu, hwOs, eGames, eProcs,
                   eTarget, uiVars, stopped, exited, unitVars>>

\* apply(mode), second backend: vibrance at the mode's configured level.
EngineApplyGpu ==
    /\ ~exited /\ ePc = "apply_gpu"
    /\ \E io \in BOOLEAN :
        /\ hwGpu' = GpuNew(gpuAvail, hwGpu, eTarget, io)
        /\ eCalls' = Append(eCalls, Call("gpu", eTarget, GpuRes(gpuAvail)))
        /\ eFailed' = (eFailed \/ (gpuAvail /\ ~io))
    /\ ePc' = "apply_os"
    /\ UNCHANGED <<running, current_state, games, envVars, hwMouse, hwOs, eGames, eProcs,
                   eTarget, uiVars, stopped, exited, unitVars>>

\* apply(mode), third backend: Game optionally optimizes the pointer speed
\* (murqin switch), Desktop resets it.
EngineApplyOs ==
    /\ ~exited /\ ePc = "apply_os"
    /\ IF eTarget = "game"
          THEN \E murqin \in BOOLEAN, target \in OsTargets, io \in BOOLEAN :
                IF murqin
                   THEN /\ hwOs' = OsOptimizeNew(hwOs, target, io)
                        /\ eCalls' = Append(eCalls, Call("os", "game", OsOptimizeRes(target)))
                        /\ eFailed' = (eFailed \/ (target # 0 /\ ~io))
                   ELSE UNCHANGED <<hwOs, eCalls, eFailed>>
          ELSE \E io \in BOOLEAN :
                /\ hwOs' = OsResetNew(hwOs, io)
                /\ eCalls' = Append(eCalls, Call("os", "desktop", "ok"))
                /\ eFailed' = (eFailed \/ ~io)
    /\ ePc' = "commit"
    /\ UNCHANGED <<running, current_state, games, envVars, hwMouse, hwGpu, eGames, eProcs,
                   eTarget, uiVars, stopped, exited, unitVars>>

\* Variant of EngineCommit: the applied mode is not recorded.
EngineCommitForgets ==
    /\ ~exited /\ ePc = "commit"
    /\ ePc' = "check"
    /\ eTarget' = "none"
    /\ eCalls' = <<>>
    /\ eFailed' = FALSE
    /\ UNCHANGED <<running, current_state, games, envVars, hwVars, eGames, eProcs, uiVars,
                   stopped, exited, unitVars>>

\* currentMode is updated only after apply has returned.
EngineCommit ==
    /\ ~exited /\ ePc = "commit"
    /\ current_state' = eTarget
    /\ ePc' = "check"
    /\ eTarget' = "none"
    /\ eCalls' = <<>>
    /\ eFailed' = FALSE
    /\ UNCHANGED <<running, games, envVars, hwVars, eGames, eProcs, uiVars, stopped, exited,
                   unitVars>>

\* ------------------------------------------------------ presentation thread

\* toggle_engine, running becomes True.
ToggleStart ==
    /\ ~exited /\ uPc = "idle" /\ ~running
    /\ running' = TRUE
    /\ stopped' = FALSE
    /\ uCalls' = <<>>
    /\ UNCHANGED <<current_state, games, envVars, hwVars, engineVars, uPc, uOp, uFrom, exited,
                   unitVars>>

\* toggle_engine, running becomes False: safety.execute() follows.
ToggleStop ==
    /\ ~exited /\ uPc = "idle" /\ running
    /\ running' = FALSE
    /\ uOp' = "stop"
    /\ uPc' = "exec_mouse"
    /\ uCalls' = <<>>
    /\ uFrom' = current_state
    /\ UNCHANGED <<current_state, games, envVars, hwVars, engineVars, stopped, exited,
                   unitVars>>

\* quit_safe -> _quit: safety.execute() follows.
Quit ==
    /\ ~exited /\ uPc = "idle"
    /\ uOp' = "quit"
    /\ uPc' = "exec_mouse"
    /\ uCalls' = <<>>
    /\ uFrom' = current_state
    /\ UNCHANGED <<running, current_state, games, envVars, hwVars, engineVars, stopped,
                   exited, unitVars>>

\* execute(), first backend: mouse desktop profile.
ExecMouse ==
    /\ ~exited /\ uPc = "exec_mouse"
    /\ \E io \in BOOLEAN : hwMouse' = MouseDesktopNew(device, hwMouse, io)
    /\ uCalls' = Append(uCalls, Call("mouse", "desktop", MouseDesktopRes(device)))
    /\ uPc' = "exec_gpu"
    /\ UNCHANGED <<running, current_state, games, envVars, hwGpu, hwOs, engineVars, uOp, uFrom,
                   stopped, exited, unitVars>>

\* execute(), second backend: desktop vibrance level.
ExecGpu ==
    /\ ~exited /\ uPc = "exec_gpu"
    /\ \E io \in BOOLEAN : hwGpu' = GpuNew(gpuAvail, hwGpu, "desktop", io)
    /\ uCalls' = Append(uCalls, Call("gpu", "desktop", GpuRes(gpuAvail)))
    /\ uPc' = "exec_os"
    /\ UNCHANGED <<running, current_state, games, envVars, hwMouse, hwOs, engineVars, uOp, uFrom,
                   stopped, exited, unitVars>>

\* execute(), third backend: pointer speed reset.
ExecOs ==
    /\ ~exited /\ uPc = "exec_os"
    /\ \E io \in BOOLEAN : hwOs' = OsResetNew(hwOs, io)
    /\ uCalls' = Append(uCalls, Call("os", "desktop", "ok"))
    /\ uPc' = "after_exec"
    /\ UNCHANGED <<running, current_state, games, envVars, hwMouse, hwGpu, engineVars, uOp, uFrom,
                   stopped, exited, unitVars>>

\* Variant of StopTail: the stop branch without its last assignment.
StopTailKeepsMode ==
    /\ ~exited /\ uPc = "after_exec" /\ uOp = "stop"
    /\ stopped' = TRUE
    /\ uPc' = "idle"
    /\ uFrom' = "none"
    /\ uOp' = "none"
    /\ uCalls' = <<>>
    /\ UNCHANGED <<running, current_state, games, envVars, hwVars, engineVars, exited,
                   unitVars>>

\* toggle_engine after execute(): engine.current_state = "unknown".
StopTail ==
    /\ ~exited /\ uPc = "after_exec" /\ uOp = "stop"
    /\ current_state' = "unknown"
    /\ stopped' = TRUE
    /\ uPc' = "idle"
    /\ uFrom' = "none"
    /\ uOp' = "none"
    /\ uCalls' = <<>>
    /\ UNCHANGED <<running, games, envVars, hwVars, engineVars, exited, unitVars>>

\* Variant of QuitTail: _quit resetting the engine state the way the stop branch does.
QuitTailResets ==
    /\ ~exited /\ uPc = "after_exec" /\ uOp = "quit"
    /\ exited' = TRUE
    /\ current_state' = "unknown"
    /\ uPc' = "idle"
    /\ uFrom' = "none"
    /\ UNCHANGED <<running, games, envVars, hwVars, engineVars, uOp, uCalls,
                   stopped, unitVars>>

\* _quit after execute(): destroy(), sys.exit(); the daemon thread ends with it.
QuitTail ==
    /\ ~exited /\ uPc = "after_exec" /\ uOp = "quit"
    /\ exited' = TRUE
    /\ uPc' = "idle"
    /\ uFrom' = "none"
    /\ UNCHANGED <<running, current_state, games, envVars, hwVars, engineVars, uOp, uCalls,
                   stopped, unitVars>>

\* Variant of OnVibChange: the slider's mode is not compared with the engine's.
OnVibChangeAnyMode ==
    /\ ~exited /\ uPc = "idle"
    /\ \E is_game \in BOOLEAN :
        LET mode == IF is_game THEN "game" ELSE "desktop" IN
        IF running
           THEN \E io \in BOOLEAN :
                /\ hwGpu' = GpuNew(gpuAvail, hwGpu, mode, io)
                /\ uCalls' = <<Call("gpu", mode, GpuRes(gpuAvail))>>
           ELSE /\ uCalls' = <<>>
                /\ UNCHANGED hwGpu
    /\ uOp' = "vib"
    /\ uPc' = "return"
    /\ UNCHANGED <<running, current_state, games, envVars, hwMouse, hwOs, engineVars,
                   uFrom, stopped, exited, unitVars>>

\* on_vib_change(value, is_game): writes only while running in the slider's mode.
OnVibChange ==
    /\ ~exited /\ uPc = "idle"
    /\ \E is_game \in BOOLEAN :
        LET mode == IF is_game THEN "game" ELSE "desktop" IN
        IF running /\ current_state = mode
           THEN \E io \in BOOLEAN :
                /\ hwGpu' = GpuNew(gpuAvail, hwGpu, mode, io)
                /\ uCalls' = <<Call("gpu", mode, GpuRes(gpuAvail))>>
           ELSE /\ uCalls' = <<>>
                /\ UNCHANGED hwGpu
    /\ uOp' = "vib"
    /\ uPc' = "return"
    /\ UNCHANGED <<running, current_state, games, envVars, hwMouse, hwOs, engineVars,
                   uFrom, stopped, exited, unitVars>>

\* on_vib_change returns to the event loop.
VibReturn ==
    /\ ~exited /\ uPc = "return" /\ uOp = "vib"
    /\ uPc' = "idle"
    /\ uOp' = "none"
    /\ uCalls' = <<>>
    /\ UNCHANGED <<running, current_state, games, envVars, hwVars, engineVars, uFrom,
                   stopped, exited, unitVars>>

\* Variant of GamesAfterAdd: the entry text is looked up as typed.
GamesAfterAddRawLookup(gs, entry) ==
    IF Strip(Lower(entry)) # <<>> /\ entry \notin Range(gs)
       THEN Append(gs, Strip(Lower(entry)))
       ELSE gs

\* cfg.games after add_game with the given entry text.
GamesAfterAdd(gs, entry) ==
    LET game_name == Strip(Lower(entry)) IN
    IF game_name # <<>> /\ game_name \notin Range(gs)
       THEN Append(gs, game_name)
       ELSE gs

\* cfg.games after remove_game(game_name).
GamesAfterRemove(gs, game_name) ==
    IF game_name \in Range(gs) THEN RemoveFirst(gs, game_name) ELSE gs

\* add_game: the entry text, lowercased and stripped.
AddGame ==
    /\ ~exited /\ uPc = "idle"
    /\ \E entry \in Entries :
        /\ Len(games) < MaxGames
        /\ games' = GamesAfterAdd(games, entry)
    /\ uCalls' = <<>>
    /\ UNCHANGED <<running, current_state, envVars, hwVars, engineVars, uPc, uOp, uFrom, stopped,
                   exited, unitVars>>

\* remove_game(game_name): the row's delete button.
RemoveGame ==
    /\ ~exited /\ uPc = "idle"
    /\ \E game_name \in PollNames :
        games' = GamesAfterRemove(games, game_name)
    /\ uCalls' = <<>>
    /\ UNCHANGED <<running, current_state, envVars, hwVars, engineVars, uPc, uOp, uFrom, stopped,
                   exited, unitVars>>

Next ==
    \/ EngineCheck
    \/ EnginePoll
    \/ EnginePollRaises
    \/ EngineCaught
    \/ EngineDecide
    \/ EngineApplyMouse
    \/ EngineApplyGpu
    \/ EngineApplyOs
    \/ EngineCommit
    \/ ToggleStart
    \/ ToggleStop
    \/ Quit
    \/ ExecMouse
    \/ ExecGpu
    \/ ExecOs
    \/ StopTail
    \/ QuitTail
    \/ OnVibChange
    \/ VibReturn
    \/ AddGame
    \/ RemoveGame

Spec == Init /\ [][Next]_vars

\* A step of the polling thread.
EngineStep ==
    \/ EngineCheck
    \/ EnginePoll
    \/ EnginePollRaises
    \/ EngineCaught
    \/ EngineDecide
    \/ EngineApplyMouse
    \/ EngineApplyGpu
    \/ EngineApplyOs
    \/ EngineCommit

\* The polling thread (ui.py line 85) is scheduled: it is not held for ever
\* at a step it can take.
SpecFair == Spec /\ WF_vars(EngineStep)

\* ------------------------------------------- set_vibrance as a unit of its own

mainVars == <<running, current_state, games, device, hwMouse, hwGpu, hwOs,
              ePc, eGames, eProcs, eTarget, eCalls, eFailed, uPc, uOp, uCalls, uFrom,
              stopped, exited>>

\* NvidiaService after __init__: _init_api either completed (available, with the
\* handles it enumerated) or failed on the way.
InitGpu ==
    /\ running = FALSE
    /\ current_state = "unknown"
    /\ games = <<>>
    /\ device = FALSE
    /\ gpuAvail \in BOOLEAN
    /\ hwMouse = [dpi |-> "init", hz |-> "init"]
    /\ hwGpu = "init"
    /\ hwOs = "init"
    /\ ePc = "check"
    /\ eGames = <<>>
    /\ eProcs = {}
    /\ eTarget = "none"
    /\ eCalls = <<>>
    /\ eFailed = FALSE
    /\ uPc = "idle"
    /\ uOp = "none"
    /\ uCalls = <<>>
    /\ uFrom = "none"
    /\ stopped = FALSE
    /\ exited = FALSE
    /\ gLevel = 50
    /\ gPrimary = FALSE
    /\ gHandles \in 0..MaxHandles
    /\ gWrites = <<>>
    /\ OsUnitIdle
    /\ MouseUnitIdle
    /\ QueueUnitIdle

\* One call set_vibrance(level, primary_only).
SetVibrance ==
    /\ \E level \in Levels, primary_only \in BOOLEAN :
        /\ gLevel' = level
        /\ gPrimary' = primary_only
        /\ gWrites' = VibranceWrites(gpuAvail, gHandles, level, primary_only)
    /\ UNCHANGED <<mainVars, gpuAvail, gHandles, osUnitVars, mouseUnitVars, queueUnitVars>>

NextGpu == SetVibrance

SpecGpu == InitGpu /\ [][NextGpu]_vars

\* ----------------------------------- WindowsMouseService as a unit of its own

\* The other threads and units at rest.
MainIdle ==
    /\ running = FALSE
    /\ current_state = "unknown"
    /\ games = <<>>
    /\ device = FALSE
    /\ gpuAvail = FALSE
    /\ hwMouse = [dpi |-> "init", hz |-> "init"]
    /\ hwGpu = "init"
    /\ hwOs = "init"
    /\ ePc = "check"
    /\ eGames = <<>>
    /\ eProcs = {}
    /\ eTarget = "none"
    /\ eCalls = <<>>
    /\ eFailed = FALSE
    /\ uPc = "idle"
    /\ uOp = "none"
    /\ uCalls = <<>>
    /\ uFrom = "none"
    /\ stopped = FALSE
    /\ exited = FALSE

\* One call on the service: its arguments, how it ended, the index it handed to
\* SystemParametersInfoW (0: none) and, for a reset, the call made before it.
OsCall(op, a, b, res, applied) ==
    [op |-> op, prev |-> IF op = "reset" THEN osLast.op ELSE "none",
     a |-> a, b |-> b, res |-> res, applied |-> applied]

\* __init__: _default = _get_speed().  SPI_GETMOUSESPEED yields 1 .. 20; s is a
\* c_int() that starts at 0 and the call's result is not looked at, so a
\* failed read leaves 0.
InitOs ==
    /\ MainIdle
    /\ GpuUnitIdle /\ gHandles = 0
    /\ MouseUnitIdle
    /\ QueueUnitIdle
    /\ osDefault \in 0..20
    /\ osLast = OsNoCall

\* Variant of OsSetSpeed: the index applied is remembered as the default.
OsSetSpeedKeepsDefault ==
    /\ \E index \in (1 - SpeedMargin)..(20 + SpeedMargin) :
        /\ osLast' = OsCall("set_speed", index, 0, "ok", SpeedIndex(index))
        /\ osDefault' = SpeedIndex(index)
    /\ UNCHANGED <<mainVars, gpuAvail, gpuUnitVars, mouseUnitVars, queueUnitVars>>

\* set_speed(index)
OsSetSpeed ==
    /\ \E index \in (1 - SpeedMargin)..(20 + SpeedMargin) :
        osLast' = OsCall("set_speed", index, 0, "ok", SpeedIndex(index))
    /\ UNCHANGED <<mainVars, gpuAvail, gpuUnitVars, mouseUnitVars, queueUnitVars,
                   osDefault>>

\* reset(): set_speed(self._default)
OsReset ==
    /\ osLast' = OsCall("reset", osDefault, 0, "ok", SpeedIndex(osDefault))
    /\ UNCHANGED <<mainVars, gpuAvail, gpuUnitVars, mouseUnitVars, queueUnitVars,
                   osDefault>>

\* optimize(base, target): ZeroDivisionError for target = 0, else
\* set_speed(the key nearest to base / target).
OsOptimize ==
    /\ \E base \in 0..MaxBase, target \in (-1)..MaxTarget :
        osLast' = IF target = 0
                     THEN OsCall("optimize", base, target, "raised", 0)
                     ELSE OsCall("optimize", base, target, "ok",
                                 SpeedIndex(MinKey(base, target)))
    /\ UNCHANGED <<mainVars, gpuAvail, gpuUnitVars, mouseUnitVars, queueUnitVars,
                   osDefault>>

NextOs ==
    \/ OsSetSpeed
    \/ OsReset
    \/ OsOptimize

SpecOs == InitOs /\ [][NextOs]_vars

\* -------------------------------------------- VXEMouseBackend as a unit of its own

\* modules/constants.py: the DPI sequences are lists of packets, the
\* polling-rate command is one packet.
SEQ_DPI_1600 == [i \in 1..DpiPackets |-> [kind |-> "dpi1600", n |-> i]]
SEQ_DPI_800 == [i \in 1..DpiPackets |-> [kind |-> "dpi800", n |-> i]]
CMD_HZ_1000 == [kind |-> "hz1000", n |-> 0]

\* What the mouse unit leaves alone.
mouseRest == <<running, current_state, games, gpuAvail, hwMouse, hwGpu, hwOs,
               engineVars, uiVars, stopped, exited, gpuUnitVars, osUnitVars,
               queueUnitVars>>

\* __init__: self.device = None
InitMouse ==
    /\ MainIdle
    /\ GpuUnitIdle /\ gHandles = 0
    /\ OsUnitIdle
    /\ MouseUnitIdle
    /\ QueueUnitIdle

\* _send for each packet in turn: device.write(p), a failure logged and swallowed.
Sends(packets, oks) == [i \in 1..Len(packets) |-> [pkt |-> packets[i], ok |-> oks[i]]]

\* connect(), called once (ui.py line 101).  no_match: no enumerated path
\* names the channel, or enumerate raised.  opened: the channel was opened.
\* raised_after_assign: open_path or set_nonblocking raised, after
\* self.device = hid.device() was executed.
MouseConnect ==
    /\ mRet = "none"
    /\ \E outcome \in {"no_match", "opened", "raised_after_assign"} :
        /\ device' = (outcome # "no_match")
        /\ mRet' = IF outcome = "opened" THEN "true" ELSE "false"
    /\ UNCHANGED <<mouseRest, mSent, mLast>>

\* set_game_mode(): the DPI packets, then _send(CMD_HZ_2000), a name that
\* hardware.py neither imports nor defines: NameError.
MouseSetGameMode ==
    /\ IF ~device
          THEN /\ mSent' = <<>>
               /\ mLast' = [op |-> "game", res |-> "noop"]
          ELSE /\ \E oks \in [1..DpiPackets -> BOOLEAN] :
                    mSent' = Sends(SEQ_DPI_1600, oks)
               /\ mLast' = [op |-> "game", res |-> "raised"]
    /\ UNCHANGED <<mouseRest, device, mRet>>

\* set_desktop_mode(): the DPI packets, then _send(CMD_HZ_1000).
MouseSetDesktopMode ==
    /\ IF ~device
          THEN /\ mSent' = <<>>
               /\ mLast' = [op |-> "desktop", res |-> "noop"]
          ELSE /\ \E oks \in [1..(DpiPackets + 1) -> BOOLEAN] :
                    mSent' = Sends(SEQ_DPI_800 \o <<CMD_HZ_1000>>, oks)
               /\ mLast' = [op |-> "desktop", res |-> "ok"]
    /\ UNCHANGED <<mouseRest, device, mRet>>

NextMouse ==
    \/ MouseConnect
    \/ MouseSetGameMode
    \/ MouseSetDesktopMode

SpecMouse == InitMouse /\ [][NextMouse]_vars

\* ------------------------------------------------ the game list as a unit of its own

\* What the user types into the game entry: any case, surrounding and inner
\* whitespace, nothing at all.
GameEntries ==
    {<<>>, <<" ">>, <<"g">>, <<"G">>, <<" ", "g">>, <<"g", " ">>, <<"o">>,
     <<"O", " ">>, <<"g", "o">>, <<"G", "O">>, <<"o", "g">>, <<"o", "o">>,
     <<"g", " ", "o">>, <<" ", "G", " ", "o", " ">>}

\* The names remove_game can be called with: a listed row's, or another.
GameNames == {Strip(Lower(e)) : e \in GameEntries}

gamesRest == <<running, current_state, device, gpuAvail, hwMouse, hwGpu, hwOs,
               engineVars, uiVars, stopped, exited, unitVars>>

\* cfg.games as loaded: unique lowercase names.
InitGames ==
    /\ games \in {<<>>, <<GameExe>>, <<OtherExe, GameExe>>}
    /\ running = FALSE
    /\ current_state = "unknown"
    /\ device = FALSE
    /\ gpuAvail = FALSE
    /\ hwMouse = [dpi |-> "init", hz |-> "init"]
    /\ hwGpu = "init"
    /\ hwOs = "init"
    /\ ePc = "check"
    /\ eGames = <<>>
    /\ eProcs = {}
    /\ eTarget = "none"
    /\ eCalls = <<>>
    /\ eFailed = FALSE
    /\ uPc = "idle"
    /\ uOp = "none"
    /\ uCalls = <<>>
    /\ uFrom = "none"
    /\ stopped = FALSE
    /\ exited = FALSE
    /\ GpuUnitIdle /\ gHandles = 0
    /\ OsUnitIdle
    /\ MouseUnitIdle
    /\ QueueUnitIdle

\* add_game
ListAdd ==
    /\ \E entry \in GameEntries :
        /\ Len(games) < MaxListed
        /\ games' = GamesAfterAdd(games, entry)
    /\ UNCHANGED gamesRest

\* remove_game(game_name)
ListRemove ==
    /\ \E game_name \in GameNames :
        games' = GamesAfterRemove(games, game_name)
    /\ UNCHANGED gamesRest

NextGames ==
    \/ ListAdd
    \/ ListRemove

SpecGames == InitGames /\ [][NextGames]_vars

\* ------------------------------ get_ui_state and the UI queue as a unit of their own

\* The threads that hold get_ui_state: the polling thread (the engine was
\* given it at ui.py line 75) and the presentation thread (execute()).
Threads == {"engine", "ui"}

\* Keys get_ui_state is asked for; "other" is any key it does not know.
UiKeys == {"vib_desk", "vib_game", "murqin", "status", "other"}

\* Positions of the vibrance sliders (from_=0, to=100).
SliderValues == {0, 50, 100}

\* Texts the status label is asked to show.
StatusTexts == {"game", "desktop"}

\* A value get_ui_state returns: an int, a bool (0 / 1), None, or the bound
\* method update_status_ui.
Ret(kind, val) == [kind |-> kind, val |-> val]

\* get_ui_state(key) on the calling thread.  fails: the widget's get() or the
\* conversion raised, and the except branch supplied the default.
UiStateCall(thread, key, v, b, fails) ==
    CASE key = "vib_desk" ->
            [key |-> key, thread |-> thread, widget |-> "slider_vib_desk",
             ret |-> IF fails THEN Ret("int", 50) ELSE Ret("int", v)]
      [] key = "vib_game" ->
            [key |-> key, thread |-> thread, widget |-> "slider_vib_game",
             ret |-> IF fails THEN Ret("int", 50) ELSE Ret("int", v)]
      [] key = "murqin" ->
            [key |-> key, thread |-> thread, widget |-> "chk_murqin",
             ret |-> IF fails THEN Ret("none", 0) ELSE Ret("bool", IF b THEN 1 ELSE 0)]
      [] key = "status" ->
            [key |-> key, thread |-> thread, widget |-> "none",
             ret |-> Ret("method", 0)]
      [] OTHER ->
            [key |-> key, thread |-> thread, widget |-> "none", ret |-> Ret("none", 0)]

queueRest == <<mainVars, gpuAvail, gpuUnitVars, osUnitVars, mouseUnitVars>>

InitQueue ==
    /\ MainIdle
    /\ GpuUnitIdle /\ gHandles = 0
    /\ OsUnitIdle
    /\ MouseUnitIdle
    /\ QueueUnitIdle

\* get_ui_state(key)
GetUiState ==
    /\ \E thread \in Threads, key \in UiKeys :
        CASE key \in {"vib_desk", "vib_game"} ->
                \E v \in SliderValues, fails \in BOOLEAN :
                    gsLast' = UiStateCall(thread, key, v, FALSE, fails)
          [] key = "murqin" ->
                \E b \in BOOLEAN, fails \in BOOLEAN :
                    gsLast' = UiStateCall(thread, key, 0, b, fails)
          [] OTHER ->
                gsLast' = UiStateCall(thread, key, 0, FALSE, FALSE)
    /\ UNCHANGED <<queueRest, ui_queue, lbl_status, uiEnq, uiRan, uiSched>>

\* update_status_ui(text, is_game) on any thread: the closure _update is put
\* on ui_queue.  id numbers the puts.
UpdateStatusUi ==
    /\ Len(ui_queue) < MaxQueue /\ uiEnq < MaxEnq
    /\ \E text \in StatusTexts, is_game \in BOOLEAN :
        ui_queue' = Append(ui_queue, [id |-> uiEnq + 1, text |-> text, is_game |-> is_game])
    /\ uiEnq' = uiEnq + 1
    /\ UNCHANGED <<queueRest, lbl_status, gsLast, uiRan, uiSched>>

\* The label after the closures cs have run to their end, in order.
StatusAfter(lbl, cs) ==
    IF cs = <<>> THEN lbl
    ELSE [text |-> cs[Len(cs)].text, is_game |-> cs[Len(cs)].is_game, thread |-> "ui"]

\* The entries of uiRan for the closures cs; the last one raised iff raised.
RanEntries(cs, raised) ==
    [i \in 1..Len(cs) |-> [id |-> cs[i].id, thread |-> "ui",
                           raised |-> (raised /\ i = Len(cs))]]

\* Variant of ProcessUiQueue: the next run is scheduled after the loop, not in
\* a finally clause, so a raising closure ends the polling of the queue.
ProcessUiQueueNoFinally ==
    /\ uiSched
    /\ \E n \in 0..Len(ui_queue) :
        /\ uiRan' = uiRan \o RanEntries(SubSeq(ui_queue, 1, IF n = 0 THEN Len(ui_queue) ELSE n),
                                        n # 0)
        /\ lbl_status' = StatusAfter(lbl_status,
                                     SubSeq(ui_queue, 1, IF n = 0 THEN Len(ui_queue) ELSE n - 1))
        /\ ui_queue' = SubSeq(ui_queue, (IF n = 0 THEN Len(ui_queue) ELSE n) + 1, Len(ui_queue))
        /\ uiSched' = (n = 0)
    /\ UNCHANGED <<queueRest, gsLast, uiEnq>>

\* process_ui_queue, the timer callback on the presentation thread: closures
\* are taken and called in order until get_nowait() raises queue.Empty (n = 0)
\* or the n-th closure raises; the finally clause schedules the next run.
ProcessUiQueue ==
    /\ uiSched
    /\ \E n \in 0..Len(ui_queue) :
        /\ uiRan' = uiRan \o RanEntries(SubSeq(ui_queue, 1, IF n = 0 THEN Len(ui_queue) ELSE n),
                                        n # 0)
        /\ lbl_status' = StatusAfter(lbl_status,
                                     SubSeq(ui_queue, 1, IF n = 0 THEN Len(ui_queue) ELSE n - 1))
        /\ ui_queue' = SubSeq(ui_queue, (IF n = 0 THEN Len(ui_queue) ELSE n) + 1, Len(ui_queue))
        /\ uiSched' = TRUE
    /\ UNCHANGED <<queueRest, gsLast, uiEnq>>

NextQueue ==
    \/ GetUiState
    \/ UpdateStatusUi
    \/ ProcessUiQueue

SpecQueue == InitQueue /\ [][NextQueue]_vars

\* Tk's event loop fires a pending after() timer: a run of process_ui_queue
\* that has something to do is not postponed for ever.
SpecQueueFair == SpecQueue /\ WF_vars(ProcessUiQueue)

\* ------------------------------------------------------------------ claims

Abs(x) == IF x < 0 THEN 0 - x ELSE x

\* The step appended a backend call for mode `op` to the log `calls`.
CallAdded(calls, calls2, op) ==
    /\ Len(calls2) = Len(calls) + 1
    /\ calls2[Len(calls2)].op = op

\* The presentation thread leaves toggle_engine's stop branch.
StopTailStep == uPc = "after_exec" /\ uOp = "stop" /\ uPc' = "idle"

\* Each of the three desktop calls occurs exactly once in `calls`, and nothing else.
DesktopCallsOnce(calls) ==
    /\ Len(calls) = 3
    /\ \A d \in {"mouse", "gpu", "os"} :
        Cardinality({i \in 1..Len(calls) :
                        calls[i].dev = d /\ calls[i].op = "desktop"}) = 1

\* The step appended to `calls` a Game-mode backend call that went past its
\* availability gate.
GameCallMade(calls, calls2) ==
    /\ CallAdded(calls, calls2, "game")
    /\ calls2[Len(calls2)].res # "noop"

\* C1 (as claimed): once a stop has completed, and for as long as running stays
\* false, no thread makes a Game-mode backend call, so the desktop
\* configuration the stop applied stays the last one applied.
C1_NoGameCallAfterStop ==
    [][(stopped /\ stopped') =>
           ~(GameCallMade(eCalls, eCalls') \/ GameCallMade(uCalls, uCalls'))]_vars

C4_TargetIffTracked ==
    ePc = "decide" =>
        /\ eTarget = "game" <=> (Range(eGames) \cap eProcs # {})
        /\ eTarget = "desktop" <=> (Range(eGames) \cap eProcs = {})

\* A tick found the second listed game, and not the first, among the processes.
C4_Witness ==
    /\ ePc = "decide" /\ eTarget = "game"
    /\ Len(eGames) = 2 /\ eGames[1] \notin eProcs /\ eGames[2] \in eProcs

\* C5: a tick whose target mode equals the recorded Mode ends without a backend
\* call and without touching the hardware.
C5_SameModeSkipsHardware ==
    [][(ePc = "decide" /\ eTarget = current_state /\ ePc' # ePc) =>
           (ePc' = "check" /\ eCalls' = eCalls /\ eCalls = <<>> /\ hwVars' = hwVars)]_vars

\* A tick computed Game with Game already applied and recorded.
C5_Witness ==
    /\ ePc = "decide" /\ eTarget = "game" /\ current_state = "game"
    /\ hwGpu = "game"

\* The presentation thread makes one of execute()'s backend calls.
ExecStep == uPc \in {"exec_mouse", "exec_gpu", "exec_os"} /\ uPc' # uPc

\* C6: every execute(), from stop or quit and whatever preceded it, makes the
\* same three desktop calls, none of which raises, and each of its steps leaves
\* a backend either as it was or in its desktop configuration.
C6_ExecuteIdempotent ==
    [][/\ uPc' = "after_exec" =>
             uCalls' = <<Call("mouse", "desktop", IF device THEN "ok" ELSE "noop"),
                         Call("gpu", "desktop", IF gpuAvail THEN "ok" ELSE "noop"),
                         Call("os", "desktop", "ok")>>
       /\ ExecStep =>
             /\ hwMouse' \in {hwMouse, [dpi |-> "dpi800", hz |-> "hz1000"]}
             /\ hwGpu' \in {hwGpu, "desktop"}
             /\ hwOs' \in {hwOs, "default"}]_vars

\* A quit's execute() has completed right after a completed stop's execute().
C6_Witness ==
    /\ uPc = "after_exec" /\ uOp = "quit" /\ stopped
    /\ device /\ gpuAvail
    /\ hwMouse = [dpi |-> "dpi800", hz |-> "hz1000"] /\ hwGpu = "desktop" /\ hwOs = "default"

\* C7: in apply and in execute, each backend call is followed by the next one
\* whatever its outcome, and apply returns to the tick with the mouse and GPU
\* calls made.
C7_FailureIsolation ==
    [][/\ (ePc = "apply_mouse" /\ ePc' # ePc) => ePc' = "apply_gpu"
       /\ (ePc = "apply_gpu" /\ ePc' # ePc) => ePc' = "apply_os"
       /\ (ePc = "apply_os" /\ ePc' # ePc) => ePc' = "commit"
       /\ (uPc = "exec_mouse" /\ uPc' # uPc) => uPc' = "exec_gpu"
       /\ (uPc = "exec_gpu" /\ uPc' # uPc) => uPc' = "exec_os"
       /\ (uPc = "exec_os" /\ uPc' # uPc) => uPc' = "after_exec"
       /\ ePc' = "commit" =>
             /\ Len(eCalls') >= 2
             /\ eCalls'[1].dev = "mouse" /\ eCalls'[2].dev = "gpu"]_vars

\* apply(Game) returned although the mouse call and the OS call both raised.
C7_Witness ==
    /\ ePc = "commit" /\ Len(eCalls) = 3
    /\ eCalls[1].res = "raised" /\ eCalls[2].res = "ok" /\ eCalls[3].res = "raised"

\* C8: with the GPU unavailable no display is ever written, every vibrance call
\* returns at its gate, and a mode change still makes its mouse and OS calls.
C8_GpuUnavailableIsNoop ==
    ~gpuAvail =>
        /\ hwGpu = "init"
        /\ \A i \in 1..Len(eCalls) : eCalls[i].dev = "gpu" => eCalls[i].res = "noop"
        /\ \A i \in 1..Len(uCalls) : uCalls[i].dev = "gpu" => uCalls[i].res = "noop"
        /\ ePc = "commit" => \E i \in 1..Len(eCalls) : eCalls[i].dev = "mouse"
        /\ (ePc = "commit" /\ eTarget = "desktop") =>
               \E i \in 1..Len(eCalls) : eCalls[i].dev = "os"
        /\ uPc = "after_exec" =>
               /\ \E i \in 1..Len(uCalls) : uCalls[i].dev = "mouse"
               /\ \E i \in 1..Len(uCalls) : uCalls[i].dev = "os"

\* A Game transition went through on the mouse and the OS with the GPU unavailable.
C8_Witness ==
    /\ ~gpuAvail /\ device
    /\ ePc = "commit" /\ eTarget = "game" /\ Len(eCalls) = 3
    /\ eCalls[2] = Call("gpu", "game", "noop")
    /\ hwMouse.dpi = "dpi1600" /\ hwOs = "optimized" /\ hwGpu = "init"

\* C9: every value set_vibrance writes lies in [-63, 63]; level 50 writes 0,
\* level 100 writes 63 and level 0 writes -63.
C9_VibranceAnchors ==
    \A i \in 1..Len(gWrites) :
        /\ gWrites[i].val \in -63..63
        /\ gLevel = 50 => gWrites[i].val = 0
        /\ gLevel = 100 => gWrites[i].val = 63
        /\ gLevel = 0 => gWrites[i].val = -63

\* A level above the slider range was written, clamped.
C9_Witness ==
    /\ gLevel = 100 + LevelMargin /\ gWrites # <<>>
    /\ gWrites[1].val = 63

\* round() of num / den, den > 0: to the nearest integer, a tie to the even one.
RoundNearest(num, den) ==
    LET q == TruncDiv(num, den)
        r == Abs(num) - Abs(q) * den
        away == IF num < 0 THEN q - 1 ELSE q + 1
    IN  IF 2 * r > den \/ (2 * r = den /\ q % 2 # 0) THEN away ELSE q

\* C10 (amended): for a level in 0..100 the written value is (level-50)*1.26
\* truncated toward zero: the integer v of the product's sign with
\* |v| <= |(level-50)*1.26| < |v| + 1.
C10_ValueTruncates ==
    \A i \in 1..Len(gWrites) :
        gLevel \in 0..100 =>
            LET v == gWrites[i].val
                k == gLevel - 50
            IN  /\ 100 * Abs(v) <= 126 * Abs(k)
                /\ 126 * Abs(k) < 100 * (Abs(v) + 1)
                /\ v * k >= 0

\* C10 (as claimed): for a level in 0..100 the written value is
\* clamp(-63, 63, round((level-50)*1.26)).
C10_ValueRounds ==
    \A i \in 1..Len(gWrites) :
        gLevel \in 0..100 =>
            gWrites[i].val = Clamp(-63, 63, RoundNearest((gLevel - 50) * 126, 100))

\* Level 52: the product is 2.52 and 2 is written.
C10_Witness ==
    /\ gLevel = 52 /\ gWrites # <<>>
    /\ gWrites[1].val = 2

\* The key distance of C11, stated on its own: |multiplier(k) - base/target|
\* times 32 * |target|.
C11_Dist(k, base, target) == Abs(PointerMap32[k] * target - 32 * base)

\* C11: for a non-zero target, optimize applies an index of 1..20 whose
\* multiplier is nearest to base/target, and no lower index is equally near.
C11_OptimizeNearestLowest ==
    (osLast.op = "optimize" /\ osLast.b # 0) =>
        /\ osLast.res = "ok"
        /\ osLast.applied \in 1..20
        /\ \A j \in 1..20 :
            /\ C11_Dist(osLast.applied, osLast.a, osLast.b) <= C11_Dist(j, osLast.a, osLast.b)
            /\ j < osLast.applied =>
                   C11_Dist(osLast.applied, osLast.a, osLast.b) < C11_Dist(j, osLast.a, osLast.b)

\* base/target = 9/8 lies midway between the multipliers of 10 and 11: 10 is applied.
C11_Witness ==
    /\ osLast.op = "optimize" /\ osLast.a = 9 /\ osLast.b = 8
    /\ osLast.applied = 10

\* C19: the captured default never changes after construction, and reset()
\* hands to the operating system the captured index brought into 1..20: the
\* captured index itself whenever that lies in 1..20.
C19_DefaultKeptResetClamps ==
    [][/\ osDefault' = osDefault
       /\ osLast'.op = "reset" =>
              /\ osLast'.applied = Clamp(1, 20, osDefault)
              /\ osDefault \in 1..20 => osLast'.applied = osDefault]_vars

\* C19 as stated: reset() applies exactly the captured index.
C19_ResetAppliesCaptured ==
    osLast.op = "reset" => osLast.applied = osDefault

\* A reset after an optimize call brings back the captured index 7.
C19_Witness ==
    /\ osLast.op = "reset" /\ osLast.prev = "optimize"
    /\ osDefault = 7 /\ osLast.applied = 7

\* The packets of a _send log.
Pkts(sent) == [i \in 1..Len(sent) |-> sent[i].pkt]

\* C13: with a connected device, each mode call passes every DPI packet of its
\* sequence to the device in list order, then exactly one polling-rate
\* command, and returns normally.
C13_ModeCallSendsAllThenRate ==
    (mRet = "true" /\ mLast.op \in {"game", "desktop"}) =>
        /\ mLast.res = "ok"
        /\ Len(mSent) = DpiPackets + 1
        /\ SubSeq(Pkts(mSent), 1, DpiPackets) =
               (IF mLast.op = "game" THEN SEQ_DPI_1600 ELSE SEQ_DPI_800)
        /\ mSent[DpiPackets + 1].pkt.kind \in {"hz1000", "hz2000", "hz8000"}

\* C14: when connect() was not called or returned False, no device handle
\* is held and a mode call writes nothing and raises nothing.
C14_NotConnectedIsSilentNoop ==
    mRet # "true" =>
        /\ ~device
        /\ mLast.op # "none" => (mLast.res = "noop" /\ mSent = <<>>)

\* Every entry non-empty, lowercase, trimmed, and listed once.
C18_WellFormed(gs) ==
    /\ \A i \in 1..Len(gs) :
        /\ gs[i] # <<>>
        /\ \A k \in 1..Len(gs[i]) : gs[i][k] \notin {"G", "O"}
        /\ gs[i][1] # " " /\ gs[i][Len(gs[i])] # " "
    /\ \A i, j \in 1..Len(gs) : gs[i] = gs[j] => i = j

\* Position of a listed name.
C18_Pos(gs, x) == CHOOSE i \in 1..Len(gs) : gs[i] = x

\* C18: after every add_game / remove_game the list holds only non-empty,
\* lowercase, trimmed, unique names; the names that stay keep their relative
\* order and a new name goes to the end.
C18_GameListInvariant ==
    [][/\ C18_WellFormed(games')
       /\ \A i, j \in 1..Len(games') :
            (i < j /\ games'[i] \in Range(games) /\ games'[j] \in Range(games)) =>
                C18_Pos(games, games'[i]) < C18_Pos(games, games'[j])
       /\ \A i \in 1..Len(games') :
            games'[i] \notin Range(games) => i = Len(games')]_vars

\* A list built by add_game alone: "g", then "go", then "g o".
C18_Witness ==
    games = <<GameExe, <<"g", "o">>, <<"g", " ", "o">>>>

\* Number of calls of one operation on one backend in a call log.
CountCalls(calls, dev, op) ==
    Cardinality({i \in 1..Len(calls) : calls[i].dev = dev /\ calls[i].op = op})

\* C12: a tick that switches to Game has invoked the mouse game profile and
\* the game vibrance level exactly once each when apply returns, and records
\* Game; a later tick that finds Game again with Game recorded makes no
\* backend call at all.
C12_GameAppliedOncePerSwitch ==
    [][/\ (ePc = "commit" /\ ePc' = "check" /\ eTarget = "game") =>
              /\ CountCalls(eCalls, "mouse", "game") = 1
              /\ CountCalls(eCalls, "gpu", "game") = 1
              /\ current_state' = "game"
       /\ (ePc = "decide" /\ ePc' # "decide" /\ eTarget = "game" /\ current_state = "game") =>
              /\ ePc' = "check"
              /\ eCalls' = eCalls
              /\ hwVars' = hwVars]_vars

\* The first tick with the listed game running, at the point where apply has
\* returned: mode still Unknown, one mouse call (which raised) and one
\* vibrance call made.
C12_Witness ==
    /\ ePc = "commit" /\ eTarget = "game" /\ current_state = "unknown"
    /\ games = <<GameExe>> /\ device /\ gpuAvail
    /\ eCalls = <<Call("mouse", "game", "raised"), Call("gpu", "game", "ok")>>

\* A step of a presentation-thread handler: toggle_engine (with the
\* execute() it runs), on_vib_change, quit.
UiHandlerStep ==
    \/ ToggleStart \/ ToggleStop \/ StopTail
    \/ OnVibChange \/ VibReturn
    \/ Quit \/ QuitTail
    \/ ExecMouse \/ ExecGpu \/ ExecOs

\* C15 (as claimed): no presentation-thread handler writes engine.running or
\* engine.current_state.
C15_UiNeverWritesEngineState ==
    [][UiHandlerStep => UNCHANGED <<running, current_state>>]_vars

\* C16 (as claimed): the presentation thread makes no backend call that goes
\* past the backend's availability gate.
C16_NoBackendCallFromUi ==
    [][~(/\ Len(uCalls') = Len(uCalls) + 1
         /\ uCalls'[Len(uCalls')].res # "noop")]_vars

\* C20 (as claimed): once the execute() of _quit has returned, the engine
\* thread makes no Game-mode backend call before the process ends.
C20_NoGameCallAfterQuitExecute ==
    [][(uOp = "quit" /\ uPc = "after_exec") => ~GameCallMade(eCalls, eCalls')]_vars

\* C17 (as claimed): whatever the engine thread pulls through get_ui_state,
\* no widget is read on that thread.
C17_EngineReadsNoWidget ==
    gsLast.thread = "engine" => gsLast.widget = "none"

\* C29: every index handed to the operating system lies in 1..20; set_speed
\* and reset apply 1 for an index (or captured default) below 1, 20 for one
\* above 20, and the index itself in between.
C29_IndexClamped ==
    osLast.res = "ok" =>
        /\ osLast.applied \in 1..20
        /\ osLast.op \in {"set_speed", "reset"} =>
              /\ osLast.a < 1 => osLast.applied = 1
              /\ osLast.a > 20 => osLast.applied = 20
              /\ osLast.a \in 1..20 => osLast.applied = osLast.a
        /\ osLast.op = "reset" => osLast.a = osDefault

\* A reset with a captured default of 0 applies 1.
C29_Witness ==
    /\ osLast.op = "reset" /\ osDefault = 0 /\ osLast.applied = 1

\* C25: with the GPU available, a set_vibrance call with primary_only and at
\* least one handle makes one write, to the first handle; without
\* primary_only it makes one write to each handle, in enumeration order; with
\* no handle it makes none.  Every write carries the mapped value.
C25_DisplayFanOut ==
    [][gpuAvail =>
          /\ (gPrimary' /\ gHandles > 0) =>
                gWrites' = <<[h |-> 1, val |-> VibranceValue(gLevel')]>>
          /\ ~gPrimary' =>
                /\ Len(gWrites') = gHandles
                /\ \A i \in 1..gHandles :
                      gWrites'[i] = [h |-> i, val |-> VibranceValue(gLevel')]
          /\ gHandles = 0 => gWrites' = <<>>]_vars

\* Two handles, primary_only: the one write went to the first.
C25_Witness ==
    /\ gpuAvail /\ gHandles = 2 /\ gPrimary
    /\ Len(gWrites) = 1 /\ gWrites[1].h = 1

\* The presentation thread runs on_vib_change up to its return.
VibStep == uPc = "idle" /\ uPc' = "return" /\ uOp' = "vib"

\* C28: on_vib_change makes a backend call only while the engine is running
\* in the slider's mode, and then exactly one, on the GPU at that mode's
\* level; otherwise the hardware stays as it is.  It never changes
\* engine.running or engine.current_state, nor the mouse or the pointer speed.
C28_VibChangeFrame ==
    [][VibStep =>
          /\ uCalls' # <<>> =>
                /\ running /\ Len(uCalls') = 1
                /\ uCalls'[1].dev = "gpu" /\ uCalls'[1].op = current_state
          /\ uCalls' = <<>> => hwGpu' = hwGpu
          /\ ~running => uCalls' = <<>>
          /\ current_state = "unknown" => uCalls' = <<>>
          /\ UNCHANGED <<running, current_state, hwMouse, hwOs>>]_vars

\* The in-game slider was moved while the engine runs in Game: one GPU call.
C28_Witness ==
    /\ uOp = "vib" /\ uPc = "return"
    /\ running /\ current_state = "game" /\ gpuAvail
    /\ uCalls = <<Call("gpu", "game", "ok")>>

\* C24 (as claimed): get_ui_state returns an integer of 0..100 for the
\* vibrance keys and a boolean for 'murqin', also when the widget cannot be read.
C24_TypedDefaults ==
    /\ gsLast.key \in {"vib_desk", "vib_game"} =>
          (gsLast.ret.kind = "int" /\ gsLast.ret.val \in 0..100)
    /\ gsLast.key = "murqin" => gsLast.ret.kind = "bool"

\* Ids of the closures in a sequence of closures or of uiRan entries.
Ids(q) == {q[i].id : i \in 1..Len(q)}

\* C26: every closure put on ui_queue is either still waiting or was called,
\* never both; closures are called on the presentation thread, in the order
\* they were put, each at most once; a run of process_ui_queue always leaves a
\* timer pending, also when a closure raised; and a waiting closure is
\* eventually called.
C26_QueueRunsEachOnceInOrder ==
    /\ [](/\ Ids(ui_queue) \cup Ids(uiRan) = 1..uiEnq
          /\ Ids(ui_queue) \cap Ids(uiRan) = {}
          /\ \A i \in 1..Len(uiRan) : uiRan[i].id = i /\ uiRan[i].thread = "ui"
          /\ \A i \in 1..Len(ui_queue) : ui_queue[i].id = Len(uiRan) + i
          /\ uiSched)
    /\ \A k \in 1..MaxEnq : (k \in Ids(ui_queue)) ~> (k \in Ids(uiRan))

\* Two closures were waiting; the first raised when called, and a later run
\* called the second, which set the label.
C26_Witness ==
    /\ Len(uiRan) = 2 /\ uiRan[1].raised /\ ~uiRan[2].raised
    /\ ui_queue = <<>> /\ uiSched
    /\ lbl_status = [text |-> "game", is_game |-> TRUE, thread |-> "ui"]

\* C22 (as claimed): when a write or OS call of a mode change failed, the
\* engine does not record the target mode at the end of the tick.
C22_FailedWriteHoldsMode ==
    [][(ePc = "commit" /\ ePc' = "check" /\ eFailed) => current_state' # eTarget]_vars

\* C23 (as claimed): from the moment a tick has decided to call apply until
\* apply has returned, engine.current_state does not change.
C23_ModeKeptDuringApply ==
    [][(ePc \in {"apply_mouse", "apply_gpu", "apply_os"}) =>
           current_state' = current_state]_vars

\* C27 (as claimed): a completed stop does not leave Game recorded as the
\* applied mode.
C27_StopForgetsGame ==
    stopped => current_state # "game"

\* C21: an exception that escapes a tick at the snapshot or at poll() is
\* caught at the tick boundary and leaves the thread in the loop; a backend
\* call that raises inside apply does not end the tick; and from the handler,
\* as from any point of a tick, the loop starts the next tick unless running
\* is set to false or the process exits first.
C21_BadTickKeepsMonitoring ==
    /\ [][/\ (ePc = "poll" /\ ePc' # "poll") => ePc' \in {"decide", "caught"}
          /\ (ePc = "caught" /\ ePc' # "caught") => ePc' = "check"
          /\ (ePc = "apply_mouse" /\ ePc' # "apply_mouse") => ePc' = "apply_gpu"]_vars
    /\ (ePc # "check" /\ running) ~> (ePc = "poll" \/ ~running \/ exited)

\* The handler at the tick boundary holds an exception while running is true.
C21_Witness ==
    /\ ePc = "caught" /\ running /\ ~exited

====
